---- MODULE Spec2Model ----
(***************************************************************************)
(* Model of src/src/download-m3u8.ts: the m3u8 downloader.                 *)
(*                                                                         *)
(* Strings are sequences of one-character strings, so that split, trim,    *)
(* startsWith, padStart and the lexicographic sort are computed as the     *)
(* code computes them.                                                     *)
(*                                                                         *)
(* JavaScript runs on one thread: a macrotask (an I/O completion, a timer) *)
(* runs only when no synchronous code and no promise job is pending, and   *)
(* the promise jobs it queues run first-in first-out before the next       *)
(* macrotask.  `jobs` is that queue.                                       *)
(***************************************************************************)
EXTENDS Integers, Sequences, FiniteSets, TLC

VARIABLES
  pc,          \* position of downloadM3u8 (and of runWithConcurrency / mergeTsFiles inside it)
  failure,     \* what downloadM3u8 rejected with ("none" while it has not)
  isMaster,    \* result of isMasterPlaylist
  prompts,     \* number of times inquirer.prompt was invoked
  nTs,         \* tsUrls.length
  limit,       \* maxConcurrency
  nextTask,    \* position of the for-of loop of runWithConcurrency
  running,     \* the Set `running` of runWithConcurrency (task indices)
  awaiting,    \* the promises handed to the Promise.race / Promise.all being awaited
  jobs,        \* the promise-job (microtask) queue
  task,        \* per segment task: retry loop position and state of its promise p
  tempFolder,  \* the workspace directory: whether it exists, and its entries
  files,       \* mergeTsFiles: the filtered, sorted listing
  mfile,       \* mergeTsFiles: index in `files` of the file being streamed
  mchunk,      \* mergeTsFiles: chunks of that file already written
  out,         \* the file at outputPath and the write stream on it: `content` is
               \* what writeStream.write accepted, of which the first `flushed`
               \* chunks are in the file; `ended`: writeStream.end() was called;
               \* `closed`: the stream closed its descriptor
  progress,    \* progressBar value
  startCount,  \* history: how many times each task function was called
  persisted,   \* history: indices whose segment file was written by this run
  lateWrite,   \* history: a segment file was written after mergeTsFiles began
  fetchFailed, \* history: a manifest fetch answered non-2xx or failed
  m3u8Url,     \* the parameter m3u8Url: 0 is the address the caller gave, k >= 1
               \* the locator of the k-th entry of streamInfos
  streams,     \* chooseM3u8: streamInfos.length while the prompt is open
  selected,    \* history: the entry the prompt answered with (0: not asked)
  parsedUrl,   \* history: the address parseM3u8 fetched (-1: none yet)
  rt,          \* state of one stand-alone call retry(fn, retries)
  mf,          \* one manifest document and what a resolver function made of it
  shared       \* two overlapping invocations of downloadM3u8 on one file system

pipeVars == <<pc, failure, isMaster, prompts, nTs, limit, nextTask, running,
              awaiting, jobs, task, tempFolder, files, mfile, mchunk, out,
              progress, startCount, persisted, lateWrite, fetchFailed,
              m3u8Url, streams, selected, parsedUrl>>

-----------------------------------------------------------------------------
(* Bounds of the model *)

\* most segments of a manifest in the pipeline model
MaxTs == 3
\* largest concurrency limit tried
MaxLimit == 3
\* chunks ('data' events) a segment file is read in
ChunksPerSeg == 2
\* most stream variants of a master playlist in the pipeline model
MaxVariants == 2
\* largest retry budget tried on retry alone
MaxRetries == 4
\* most lines of a manifest document
MaxLines == 3

-----------------------------------------------------------------------------
(* String helpers *)

Min(S) == CHOOSE x \in S : \A y \in S : x <= y
Max(S) == CHOOSE x \in S : \A y \in S : x >= y

\* String.prototype.startsWith
StartsWith(s, p) == Len(s) >= Len(p) /\ SubSeq(s, 1, Len(p)) = p

\* String.prototype.endsWith
EndsWith(s, p) == Len(s) >= Len(p) /\ SubSeq(s, Len(s) - Len(p) + 1, Len(s)) = p

\* String.prototype.includes
Includes(s, p) == \E k \in 1..(Len(s) - Len(p) + 1) : SubSeq(s, k, k + Len(p) - 1) = p

IsSpace(c) == c \in {" ", "\t", "\r", "\n"}

\* String.prototype.trim
Trim(s) ==
  LET keep == {k \in 1..Len(s) : ~IsSpace(s[k])}
  IN  IF keep = {} THEN <<>> ELSE SubSeq(s, Min(keep), Max(keep))

\* String.prototype.split(sep) for a one-character separator
RECURSIVE Split(_, _)
Split(s, sep) ==
  LET at == {k \in 1..Len(s) : s[k] = sep}
  IN  IF at = {} THEN <<s>>
      ELSE <<SubSeq(s, 1, Min(at) - 1)>> \o Split(SubSeq(s, Min(at) + 1, Len(s)), sep)

\* Array.prototype.join(sep)
RECURSIVE Join(_, _)
Join(parts, sep) ==
  IF Len(parts) = 0 THEN <<>>
  ELSE IF Len(parts) = 1 THEN parts[1]
  ELSE parts[1] \o <<sep>> \o Join(Tail(parts), sep)

-----------------------------------------------------------------------------
(* Workspace file names: downloadTs line 79, mergeTsFiles lines 88-91 *)

\* padStart(5, '0')
PadWidth == 5

Digits == <<"0", "1", "2", "3", "4", "5", "6", "7", "8", "9">>

\* Number.prototype.toString() of a non-negative integer
RECURSIVE NumToString(_)
NumToString(n) ==
  IF n < 10 THEN <<Digits[n + 1]>>
  ELSE NumToString(n \div 10) \o <<Digits[(n % 10) + 1]>>

\* String.prototype.padStart(width, c)
PadStart(s, width, c) ==
  IF Len(s) >= width THEN s ELSE [k \in 1..(width - Len(s)) |-> c] \o s

TsExt == <<".", "t", "s">>

\* `${index.toString().padStart(5, '0')}.ts`
FileNameWithoutIndex(index) == PadStart(NumToString(0), PadWidth, "0") \o TsExt
FileName(index) == PadStart(NumToString(index), PadWidth, "0") \o TsExt

\* UTF-16 code unit of the characters a file name is made of
CharCode(c) ==
  IF c = "." THEN 46
  ELSE IF c = "s" THEN 115
  ELSE IF c = "t" THEN 116
  ELSE 47 + (CHOOSE d \in 1..10 : Digits[d] = c)

\* a < b in the order of Array.prototype.sort() without a comparator
RECURSIVE StrLess(_, _)
StrLess(a, b) ==
  IF b = <<>> THEN FALSE
  ELSE IF a = <<>> THEN TRUE
  ELSE IF CharCode(a[1]) # CharCode(b[1]) THEN CharCode(a[1]) < CharCode(b[1])
  ELSE StrLess(Tail(a), Tail(b))

\* Array.prototype.sort() of a set of distinct names
RECURSIVE SortNames(_)
SortNames(S) ==
  IF S = {} THEN <<>>
  ELSE LET m == CHOOSE x \in S : \A y \in S \ {x} : StrLess(x, y)
       IN  <<m>> \o SortNames(S \ {m})

\* the bytes of segment `index`, as the chunks they are read back in
SegData(index) == [k \in 1..ChunksPerSeg |-> <<index, k>>]

\* concatenation of a sequence of sequences
RECURSIVE Flatten(_)
Flatten(ss) == IF ss = <<>> THEN <<>> ELSE Head(ss) \o Flatten(Tail(ss))

\* the indices of a set in ascending order
RECURSIVE Ascending(_)
Ascending(S) == IF S = {} THEN <<>> ELSE <<Min(S)>> \o Ascending(S \ {Min(S)})

-----------------------------------------------------------------------------
(* retry, lines 9-21 *)

\* retries = 3
DefaultRetries == 3

\* if (i === retries) throw e
RetryExhaustedEarly(i, retries) == i + 1 >= retries
RetryExhausted(i, retries) == i = retries

-----------------------------------------------------------------------------
(* The pipeline: downloadM3u8, lines 175-214 *)

Tasks == 0..(MaxTs - 1)

FetchResults == {"ok", "status", "transport"}

NewTask == [st |-> "new", i |-> 0, p |-> "pending"]

NoFolder == [exists |-> FALSE, entries |-> <<>>]

RtIdle == [pc |-> "idle"]

MfIdle == [pc |-> "idle"]

SharedIdle == [now |-> 0]

Init ==
  /\ pc = "isMaster"
  /\ failure = "none"
  /\ isMaster = FALSE
  /\ prompts = 0
  /\ nTs = 0
  /\ limit \in 1..MaxLimit
  /\ nextTask = 0
  /\ running = {}
  /\ awaiting = {}
  /\ jobs = <<>>
  /\ task = [t \in Tasks |-> NewTask]
  /\ tempFolder = NoFolder
  /\ files = <<>>
  /\ mfile = 0
  /\ mchunk = 0
  /\ out \in {[exists |-> FALSE, content |-> <<>>, ended |-> FALSE, touched |-> FALSE,
         flushed |-> 0, closed |-> FALSE],
              [exists |-> TRUE, content |-> <<"old">>, ended |-> FALSE, touched |-> FALSE,
               flushed |-> 1, closed |-> FALSE]}
  /\ progress = 0
  /\ startCount = [t \in Tasks |-> 0]
  /\ persisted = {}
  /\ lateWrite = FALSE
  /\ fetchFailed = FALSE
  /\ m3u8Url = 0
  /\ streams = 0
  /\ selected = 0
  /\ parsedUrl = -1
  /\ rt = RtIdle
  /\ mf = MfIdle
  /\ shared = SharedIdle

\* downloadM3u8 rejects with `why`
Reject(why) == pc' = "rejected" /\ failure' = why

\* no synchronous code is running and no promise job is pending
Idle == jobs = <<>> /\ pc # "loop"

\* positions of downloadM3u8 after `await runWithConcurrency(...)` returned
MergePcs == {"merge_readdir", "merge_mkdir", "merge_stream", "cleanup", "resolved"}

\* lines 53, 118, 130: if (!res.ok) throw; a transport error rejects fetch itself
ResOkUnchecked(res) == res # "transport"
ResOk(res) == res = "ok"

\* line 180: await isMasterPlaylist(m3u8Url), lines 116-123
IsMasterResponse(res, master) ==
  /\ pc = "isMaster" /\ Idle
  /\ fetchFailed' = (fetchFailed \/ res # "ok")
  /\ IF ~ResOk(res) THEN Reject("manifest") /\ UNCHANGED isMaster
     ELSE /\ isMaster' = master
          /\ pc' = IF master THEN "choose" ELSE "parse"
          /\ UNCHANGED failure
  /\ UNCHANGED <<prompts, nTs, limit, nextTask, running, awaiting, jobs, task,
                 tempFolder, files, mfile, mchunk, out, progress, startCount,
                 persisted, lateWrite, m3u8Url,
                 streams, selected, parsedUrl, rt, mf, shared>>

\* line 181: chooseM3u8 up to the prompt, lines 129-158; nStreams = streamInfos.length
ChooseResponse(res, nStreams) ==
  /\ pc = "choose" /\ Idle
  /\ fetchFailed' = (fetchFailed \/ res # "ok")
  /\ IF ~ResOk(res) THEN Reject("manifest")
     ELSE IF nStreams = 0 THEN Reject("noStreams")
     ELSE pc' = "prompt" /\ UNCHANGED failure
  /\ streams' = IF ResOk(res) /\ nStreams > 0 THEN nStreams ELSE streams
  /\ UNCHANGED <<isMaster, prompts, nTs, limit, nextTask, running, awaiting, jobs,
                 task, tempFolder, files, mfile, mchunk, out, progress, startCount,
                 persisted, lateWrite, m3u8Url, selected, parsedUrl, rt, mf, shared>>

\* lines 172 and 181: m3u8Url = streamInfos[selected].url
ChosenUrlDropped(sel) == 0
ChosenUrl(sel) == sel

\* lines 160-172 and 181: the variant-selection collaborator answers with
\* entry `sel` of streamInfos, chooseM3u8 returns and streamInfos is gone
Prompt(sel) ==
  /\ pc = "prompt" /\ Idle
  /\ sel \in 1..streams
  /\ prompts' = prompts + 1
  /\ selected' = sel
  /\ m3u8Url' = ChosenUrl(sel)
  /\ streams' = 0
  /\ pc' = "parse"
  /\ UNCHANGED <<failure, isMaster, nTs, limit, nextTask, running, awaiting, jobs,
                 task, tempFolder, files, mfile, mchunk, out, progress, startCount,
                 persisted, lateWrite, fetchFailed, parsedUrl, rt, mf, shared>>

\* line 184: const tsUrls = await parseM3u8(m3u8Url), lines 51-63; n = tsUrls.length
ParseResponse(res, n) ==
  /\ pc = "parse" /\ Idle
  /\ fetchFailed' = (fetchFailed \/ res # "ok")
  /\ IF ~ResOk(res) THEN Reject("manifest") /\ UNCHANGED nTs
     ELSE nTs' = n /\ pc' = "mkdir" /\ UNCHANGED failure
  /\ parsedUrl' = m3u8Url
  /\ UNCHANGED <<isMaster, prompts, limit, nextTask, running, awaiting, jobs, task,
                 tempFolder, files, mfile, mchunk, out, progress, startCount,
                 persisted, lateWrite, m3u8Url, streams, selected, rt, mf, shared>>

\* lines 186-195: create the workspace, then enter runWithConcurrency (line 27)
MkdirTemp(ok) ==
  /\ pc = "mkdir"
  /\ IF ~ok THEN Reject("mkdir") /\ UNCHANGED <<tempFolder, running, nextTask>>
     ELSE /\ tempFolder' = [exists |-> TRUE, entries |-> <<>>]
          /\ running' = {}
          /\ nextTask' = 0
          /\ pc' = "loop"
          /\ UNCHANGED failure
  /\ UNCHANGED <<isMaster, prompts, nTs, limit, awaiting, jobs, task, files, mfile,
                 mchunk, out, progress, startCount, persisted, lateWrite, fetchFailed, m3u8Url,
                 streams, selected, parsedUrl, rt, mf, shared>>

-----------------------------------------------------------------------------
(* runWithConcurrency, lines 26-39 *)

\* line 33: if (running.size >= limit)
SizeAtLimitOffByOne(size, lim) == size > lim
SizeAtLimit(size, lim) == size >= lim

\* line 34: the promises Promise.race(running) waits for
RaceSetNone(run) == {}
RaceSet(run) == run

\* line 38: the promises Promise.all([...running]) waits for
AllSetNone(run) == {}
AllSet(run) == run

\* line 29: the task the for-of loop takes at its iteration number `pos`
\* (from 0): the array is iterated in index order
LoopTaskSwapped(pos) == IF pos = 0 THEN 1 ELSE IF pos = 1 THEN 0 ELSE pos
LoopTask(pos) == pos

\* lines 29-35: one iteration of the for-of loop; task() runs up to its first
\* await, which is the fetch of downloadTs (lines 197-199, 10-12, 74)
StartTask ==
  /\ pc = "loop" /\ nextTask < nTs
  /\ task' = [task EXCEPT ![LoopTask(nextTask)].st = "fetch"]
  /\ startCount' = [startCount EXCEPT ![LoopTask(nextTask)] = @ + 1]
  /\ running' = running \cup {LoopTask(nextTask)}
  /\ nextTask' = nextTask + 1
  /\ IF SizeAtLimit(Cardinality(running'), limit)
     THEN pc' = "race" /\ awaiting' = RaceSet(running')
     ELSE pc' = "loop" /\ UNCHANGED awaiting
  /\ UNCHANGED <<failure, isMaster, prompts, nTs, limit, jobs, tempFolder, files,
                 mfile, mchunk, out, progress, persisted, lateWrite, fetchFailed, m3u8Url,
                 streams, selected, parsedUrl, rt, mf, shared>>

\* lines 34 and 38: Promise.race and Promise.all call `then` on each promise
\* of S in iteration order (the insertion order of `running`); for a promise that
\* is settled already the reaction job is queued at once
RECURSIVE ReactNow(_)
ReactNow(S) ==
  IF S = {} THEN <<>>
  ELSE LET t == Min(S)
       IN  (IF task[t].p # "pending" THEN <<[k |-> "react", t |-> t]>> ELSE <<>>)
             \o ReactNow(S \ {t})

\* line 38: the loop is over; Promise.all of an empty array is already fulfilled
LoopExit ==
  /\ pc = "loop" /\ nextTask = nTs
  /\ pc' = "all"
  /\ awaiting' = AllSet(running)
  /\ jobs' = IF AllSet(running) = {} THEN jobs \o <<[k |-> "resume", t |-> 0]>>
            ELSE jobs \o ReactNow(AllSet(running))
  /\ UNCHANGED <<failure, isMaster, prompts, nTs, limit, nextTask, running, task,
                 tempFolder, files, mfile, mchunk, out, progress, startCount,
                 persisted, lateWrite, fetchFailed, m3u8Url,
                 streams, selected, parsedUrl, rt, mf, shared>>

\* the promise p of task t settles: its reactions are queued in the order they
\* were registered, p.finally (line 32) before Promise.race / Promise.all
Settled(t) ==
  <<[k |-> "finally", t |-> t]>>
    \o (IF pc \in {"race", "all"} /\ t \in awaiting
        THEN <<[k |-> "react", t |-> t]>> ELSE <<>>)

\* the head of the promise-job queue runs, once the synchronous code is over
RunJob ==
  /\ jobs # <<>> /\ pc # "loop"
  /\ LET j == Head(jobs) IN
     IF j.k = "finally" THEN
       \* line 32: running.delete(p)
       /\ running' = running \ {j.t}
       /\ jobs' = Tail(jobs)
       /\ UNCHANGED <<pc, failure, awaiting>>
     ELSE IF j.k = "react" THEN
       \* Promise.race settles as p did; Promise.all rejects as soon as one does
       \* and is fulfilled when all are
       /\ IF j.t \notin awaiting THEN jobs' = Tail(jobs) /\ UNCHANGED awaiting
          ELSE IF task[j.t].p = "rejected"
            THEN jobs' = Tail(jobs) \o <<[k |-> "throw", t |-> j.t]>> /\ awaiting' = {}
          ELSE IF pc = "race" \/ \A a \in awaiting : task[a].p = "fulfilled"
            THEN jobs' = Tail(jobs) \o <<[k |-> "resume", t |-> j.t]>> /\ awaiting' = {}
          ELSE jobs' = Tail(jobs) /\ UNCHANGED awaiting
       /\ UNCHANGED <<pc, failure, running>>
     ELSE IF j.k = "resume" THEN
       \* the await of line 34 or of line 38 returns; after line 38
       \* runWithConcurrency resolves and downloadM3u8 goes on at line 209
       /\ pc' = IF pc = "race" THEN "loop" ELSE IF pc = "all" THEN "merge_readdir" ELSE pc
       /\ jobs' = Tail(jobs)
       /\ UNCHANGED <<failure, running, awaiting>>
     ELSE
       \* the await throws: runWithConcurrency and downloadM3u8 reject
       /\ Reject("task")
       /\ jobs' = Tail(jobs)
       /\ UNCHANGED <<running, awaiting>>
  /\ UNCHANGED <<isMaster, prompts, nTs, limit, nextTask, task, tempFolder, files,
                 mfile, mchunk, out, progress, startCount, persisted, lateWrite, fetchFailed, m3u8Url,
                 streams, selected, parsedUrl, rt, mf, shared>>

-----------------------------------------------------------------------------
(* One segment task: lines 197-205 around retry (9-21) around downloadTs (68-82) *)

\* lines 200-204: what the task's promise becomes when retry threw
TaskCatchMissing == "rejected"
TaskCatch == "fulfilled"

\* lines 74-78: the fetch of the current attempt answers
FetchResponse(t, res) ==
  /\ Idle /\ task[t].st = "fetch"
  /\ IF res = "ok" THEN
       \* line 80: writeFile is started
       /\ task' = [task EXCEPT ![t].st = "write"]
       /\ UNCHANGED jobs
     ELSE IF RetryExhausted(task[t].i, DefaultRetries) THEN
       \* line 15: throw e, caught at line 200
       /\ task' = [task EXCEPT ![t].st = "failed", ![t].p = TaskCatch]
       /\ jobs' = Settled(t)
     ELSE
       \* line 17: wait `delay`
       /\ task' = [task EXCEPT ![t].st = "delay"]
       /\ UNCHANGED jobs
  /\ UNCHANGED <<pc, failure, isMaster, prompts, nTs, limit, nextTask, running,
                 awaiting, tempFolder, files, mfile, mchunk, out, progress,
                 startCount, persisted, lateWrite, fetchFailed, m3u8Url,
                 streams, selected, parsedUrl, rt, mf, shared>>

\* line 17 then lines 10-12: the delay is over, fn is invoked again
DelayElapsed(t) ==
  /\ Idle /\ task[t].st = "delay"
  /\ task' = [task EXCEPT ![t].st = "fetch", ![t].i = @ + 1]
  /\ UNCHANGED <<pc, failure, isMaster, prompts, nTs, limit, nextTask, running,
                 awaiting, jobs, tempFolder, files, mfile, mchunk, out, progress,
                 startCount, persisted, lateWrite, fetchFailed, m3u8Url,
                 streams, selected, parsedUrl, rt, mf, shared>>

\* lines 80-81: the segment file is written, the progress bar advances, and
\* downloadTs, retry and the task return (the loop variable i of retry is gone)
WriteFileDone(t) ==
  /\ Idle /\ task[t].st = "write" /\ tempFolder.exists
  /\ tempFolder' = [tempFolder EXCEPT !.entries = (FileName(t) :> SegData(t)) @@ @]
  /\ progress' = progress + 1
  /\ persisted' = persisted \cup {t}
  /\ lateWrite' = (lateWrite \/ pc \in MergePcs)
  /\ task' = [task EXCEPT ![t].st = "done", ![t].i = 0, ![t].p = "fulfilled"]
  /\ jobs' = Settled(t)
  /\ UNCHANGED <<pc, failure, isMaster, prompts, nTs, limit, nextTask, running,
                 awaiting, files, mfile, mchunk, out, startCount, fetchFailed, m3u8Url,
                 streams, selected, parsedUrl, rt, mf, shared>>

\* line 80: writeFile rejects before anything of the file is written (the
\* file cannot be opened); downloadTs throws into retry, lines 13-17
WriteFileFails(t) ==
  /\ Idle /\ task[t].st = "write"
  /\ IF RetryExhausted(task[t].i, DefaultRetries) THEN
       /\ task' = [task EXCEPT ![t].st = "failed", ![t].p = TaskCatch]
       /\ jobs' = Settled(t)
     ELSE
       /\ task' = [task EXCEPT ![t].st = "delay"]
       /\ UNCHANGED jobs
  /\ UNCHANGED <<pc, failure, isMaster, prompts, nTs, limit, nextTask, running,
                 awaiting, tempFolder, files, mfile, mchunk, out, progress,
                 startCount, persisted, lateWrite, fetchFailed, m3u8Url,
                 streams, selected, parsedUrl, rt, mf, shared>>

-----------------------------------------------------------------------------
(* mergeTsFiles, lines 87-111, and cleanup, lines 44-46 *)

\* lines 88-91: readdir, filter on '.ts', sort
Listing(entries) == SortNames({n \in DOMAIN entries : EndsWith(n, TsExt)})

\* lines 88-96
MergeReaddir ==
  /\ pc = "merge_readdir" /\ Idle
  /\ IF ~tempFolder.exists THEN Reject("merge") /\ UNCHANGED files
     ELSE /\ files' = Listing(tempFolder.entries)
          /\ pc' = IF files' = <<>> THEN "cleanup" ELSE "merge_mkdir"
          /\ UNCHANGED failure
  /\ UNCHANGED <<isMaster, prompts, nTs, limit, nextTask, running, awaiting, jobs,
                 task, tempFolder, mfile, mchunk, out, progress, startCount,
                 persisted, lateWrite, fetchFailed, m3u8Url,
                 streams, selected, parsedUrl, rt, mf, shared>>

\* lines 98-101: mkdir of the output directory, then createWriteStream, which
\* creates or truncates the file at outputPath
MergeMkdir(ok) ==
  /\ pc = "merge_mkdir" /\ Idle
  /\ IF ~ok THEN Reject("merge") /\ UNCHANGED <<out, mfile, mchunk>>
     ELSE /\ out' = [exists |-> TRUE, content |-> <<>>, ended |-> FALSE, touched |-> TRUE,
                     flushed |-> 0, closed |-> FALSE]
          /\ mfile' = 1
          /\ mchunk' = 0
          /\ pc' = "merge_stream"
          /\ UNCHANGED failure
  /\ UNCHANGED <<isMaster, prompts, nTs, limit, nextTask, running, awaiting, jobs,
                 task, tempFolder, files, progress, startCount, persisted,
                 lateWrite, fetchFailed, m3u8Url,
                 streams, selected, parsedUrl, rt, mf, shared>>

\* the chunks createReadStream(file) delivers
FileData(name) == IF name \in DOMAIN tempFolder.entries THEN tempFolder.entries[name] ELSE <<>>

\* lines 103-108: the promise of the current file is resolved by the 'end'
\* event of its read stream, which follows the last 'data' event
ReadEndedAtOnce(delivered, name) == TRUE
ReadEnded(delivered, name) == delivered = Len(FileData(name))

\* line 105: a 'data' event of the current read stream
MergeData ==
  /\ pc = "merge_stream" /\ Idle
  /\ mchunk < Len(FileData(files[mfile]))
  /\ out' = [out EXCEPT !.content = Append(@, FileData(files[mfile])[mchunk + 1])]
  /\ mchunk' = mchunk + 1
  /\ UNCHANGED <<pc, failure, isMaster, prompts, nTs, limit, nextTask, running,
                 awaiting, jobs, task, tempFolder, files, mfile, progress,
                 startCount, persisted, lateWrite, fetchFailed, m3u8Url,
                 streams, selected, parsedUrl, rt, mf, shared>>

\* line 106: 'end' of the current read stream; the loop goes to the next file,
\* or calls writeStream.end() (line 110) and mergeTsFiles returns
MergeFileEnd ==
  /\ pc = "merge_stream" /\ Idle
  /\ ReadEnded(mchunk, files[mfile])
  /\ IF mfile < Len(files)
     THEN mfile' = mfile + 1 /\ mchunk' = 0 /\ UNCHANGED <<pc, out>>
     ELSE pc' = "cleanup" /\ out' = [out EXCEPT !.ended = TRUE] /\ UNCHANGED <<mfile, mchunk>>
  /\ UNCHANGED <<failure, isMaster, prompts, nTs, limit, nextTask, running,
                 awaiting, jobs, task, tempFolder, files, progress, startCount,
                 persisted, lateWrite, fetchFailed, m3u8Url,
                 streams, selected, parsedUrl, rt, mf, shared>>

\* line 107: 'error' of the current read stream rejects mergeTsFiles
MergeReadError ==
  /\ pc = "merge_stream" /\ Idle
  /\ Reject("merge")
  /\ UNCHANGED <<isMaster, prompts, nTs, limit, nextTask, running, awaiting, jobs,
                 task, tempFolder, files, mfile, mchunk, out, progress, startCount,
                 persisted, lateWrite, fetchFailed, m3u8Url,
                 streams, selected, parsedUrl, rt, mf, shared>>

\* fs.WriteStream behind lines 101, 105 and 110: write(chunk) only queues the
\* chunk; the stream writes it to the file in a later I/O callback, in the
\* order of the write calls.  No such callback runs between the return of
\* mergeTsFiles and line 213, which is synchronous code and promise jobs only.
WriteStreamFlush ==
  /\ Idle /\ pc # "cleanup"
  /\ out.touched /\ ~out.closed
  /\ out.flushed < Len(out.content)
  /\ out' = [out EXCEPT !.flushed = @ + 1]
  /\ UNCHANGED <<pc, failure, isMaster, prompts, nTs, limit, nextTask, running,
                 awaiting, jobs, task, tempFolder, files, mfile, mchunk, progress,
                 startCount, persisted, lateWrite, fetchFailed, m3u8Url,
                 streams, selected, parsedUrl, rt, mf, shared>>

\* after writeStream.end() (line 110, not awaited) and the last queued write,
\* the stream closes the file in a later I/O callback
WriteStreamClose ==
  /\ Idle /\ pc # "cleanup"
  /\ out.ended /\ ~out.closed
  /\ out.flushed = Len(out.content)
  /\ out' = [out EXCEPT !.closed = TRUE]
  /\ UNCHANGED <<pc, failure, isMaster, prompts, nTs, limit, nextTask, running,
                 awaiting, jobs, task, tempFolder, files, mfile, mchunk, progress,
                 startCount, persisted, lateWrite, fetchFailed, m3u8Url,
                 streams, selected, parsedUrl, rt, mf, shared>>

\* lines 212-213 and 44-46: fs.rmSync(folder, {recursive, force}); it throws
\* when the removal fails
Cleanup(ok) ==
  /\ pc = "cleanup"
  /\ IF ok THEN tempFolder' = NoFolder /\ pc' = "resolved" /\ UNCHANGED failure
     ELSE Reject("cleanup") /\ UNCHANGED tempFolder
  /\ UNCHANGED <<isMaster, prompts, nTs, limit, nextTask, running, awaiting, jobs,
                 task, files, mfile, mchunk, out, progress, startCount, persisted,
                 lateWrite, fetchFailed, m3u8Url,
                 streams, selected, parsedUrl, rt, mf, shared>>

-----------------------------------------------------------------------------

Next ==
  \/ \E res \in FetchResults, master \in BOOLEAN : IsMasterResponse(res, master)
  \/ \E res \in FetchResults, n \in 0..MaxVariants : ChooseResponse(res, n)
  \/ \E sel \in 1..MaxVariants : Prompt(sel)
  \/ \E res \in FetchResults, n \in 0..MaxTs : ParseResponse(res, n)
  \/ \E ok \in BOOLEAN : MkdirTemp(ok)
  \/ StartTask
  \/ LoopExit
  \/ RunJob
  \/ \E t \in Tasks, res \in FetchResults : FetchResponse(t, res)
  \/ \E t \in Tasks : DelayElapsed(t)
  \/ \E t \in Tasks : WriteFileDone(t)
  \/ \E t \in Tasks : WriteFileFails(t)
  \/ MergeReaddir
  \/ \E ok \in BOOLEAN : MergeMkdir(ok)
  \/ MergeData
  \/ MergeFileEnd
  \/ MergeReadError
  \/ WriteStreamFlush
  \/ WriteStreamClose
  \/ \E ok \in BOOLEAN : Cleanup(ok)

vars == <<pipeVars, rt, mf, shared>>

Spec == Init /\ [][Next]_vars

-----------------------------------------------------------------------------
(* retry(fn, retries) on its own, lines 9-21, for any fn and any budget *)

\* the pipeline is not running
PipeOff ==
  /\ pc = "off" /\ failure = "none" /\ isMaster = FALSE /\ prompts = 0 /\ nTs = 0
  /\ limit = 1 /\ nextTask = 0 /\ running = {} /\ awaiting = {} /\ jobs = <<>>
  /\ task = [t \in Tasks |-> NewTask] /\ tempFolder = NoFolder /\ files = <<>>
  /\ mfile = 0 /\ mchunk = 0
  /\ out = [exists |-> FALSE, content |-> <<>>, ended |-> FALSE, touched |-> FALSE,
         flushed |-> 0, closed |-> FALSE]
  /\ progress = 0 /\ startCount = [t \in Tasks |-> 0] /\ persisted = {}
  /\ lateWrite = FALSE /\ fetchFailed = FALSE
  /\ m3u8Url = 0 /\ streams = 0 /\ selected = 0 /\ parsedUrl = -1

FnValues == {"v1", "v2"}
FnErrors == {"e1", "e2"}

\* lines 9-12: retry is called, i = 0, fn is invoked for the first time;
\* hist is the history of how each invocation of fn ended
InitRetry ==
  /\ PipeOff
  /\ mf = MfIdle
  /\ shared = SharedIdle
  /\ \E r \in 0..MaxRetries :
       rt = [pc |-> "call", retries |-> r, i |-> 0, calls |-> 1, hist |-> <<>>,
             result |-> "none"]

\* line 12: fn() is fulfilled, retry returns its value
RetryFnFulfils(v) ==
  /\ rt.pc = "call"
  /\ rt' = [rt EXCEPT !.pc = "returned", !.result = v,
                      !.hist = Append(@, [ok |-> TRUE, v |-> v])]
  /\ UNCHANGED <<pipeVars, mf, shared>>

\* lines 13-17: fn() is rejected with e
RetryFnRejects(e) ==
  /\ rt.pc = "call"
  /\ rt' = [rt EXCEPT !.pc = IF RetryExhausted(rt.i, rt.retries) THEN "threw" ELSE "delay",
                      !.result = IF RetryExhausted(rt.i, rt.retries) THEN e ELSE @,
                      !.hist = Append(@, [ok |-> FALSE, v |-> e])]
  /\ UNCHANGED <<pipeVars, mf, shared>>

\* lines 17, 10, 12: the delay is over, i++, and fn is invoked again while
\* i <= retries; line 20 otherwise
RetryDelayElapsed ==
  /\ rt.pc = "delay"
  /\ rt' = IF rt.i + 1 <= rt.retries
           THEN [rt EXCEPT !.pc = "call", !.i = @ + 1, !.calls = @ + 1]
           ELSE [rt EXCEPT !.pc = "threw", !.i = @ + 1, !.result = "Unexpected retry failure"]
  /\ UNCHANGED <<pipeVars, mf, shared>>

NextRetry ==
  \/ \E v \in FnValues : RetryFnFulfils(v)
  \/ \E e \in FnErrors : RetryFnRejects(e)
  \/ RetryDelayElapsed

SpecRetry == InitRetry /\ [][NextRetry]_vars

-----------------------------------------------------------------------------
(* The manifest functions on documents: parseM3u8 (51-63), isMasterPlaylist   *)
(* (116-123) and chooseM3u8 up to its prompt (128-158)                        *)

Http == <<"h", "t", "t", "p">>
Hash == <<"#">>
StreamInf == <<"#", "E", "X", "T", "-", "X", "-", "S", "T", "R", "E", "A", "M", "-", "I", "N", "F">>
Undefined == <<"u", "n", "d", "e", "f", "i", "n", "e", "d">>

\* slice(0, -1)
AllButLast(parts) == SubSeq(parts, 1, Len(parts) - 1)

\* lines 57 and 134: m3u8Url.split('/').slice(0, -1).join('/')
BaseUrl(url) == Join(AllButLast(Split(url, "/")), "/")

\* lines 59-60 and 136: text.split('\n').map(line => line.trim())
TrimmedLines(text) ==
  LET raw == Split(text, "\n") IN [k \in 1..Len(raw) |-> Trim(raw[k])]

\* line 61: line && !line.startsWith('#')
IsLocatorLine(line) == line # <<>> /\ ~StartsWith(line, Hash)

\* lines 62 and 149: line.startsWith('http')
LooksAbsolute(line) == StartsWith(line, Http)

\* lines 62 and 149-151: line.startsWith('http') ? line : `${baseUrl}/${line}`
Rebase(baseUrl, line) ==
  IF LooksAbsolute(line) THEN line ELSE baseUrl \o <<"/">> \o line

\* lines 56-62
ParseM3u8(url, text) ==
  LET kept == SelectSeq(TrimmedLines(text), IsLocatorLine)
  IN  [k \in 1..Len(kept) |-> Rebase(BaseUrl(url), kept[k])]

\* line 122: text.includes('#EXT-X-STREAM-INF')
IsMasterPlaylist(text) == Includes(text, StreamInf)

\* lines 149-151: lines[i + 1] is undefined after the last line, and
\* undefined?.startsWith(...) is undefined, so the template is taken
VariantUrl(baseUrl, lines, i) ==
  IF i + 1 <= Len(lines) THEN Rebase(baseUrl, lines[i + 1])
  ELSE baseUrl \o <<"/">> \o Undefined

\* lines 144-154: the streamInfos array; `at` records the line of the directive
\* (name, resolution and bandwidth are not modelled)
StreamInfos(masterUrl, text) ==
  LET lines == TrimmedLines(text)
      at == Ascending({i \in 1..Len(lines) : StartsWith(lines[i], StreamInf)})
  IN  [k \in 1..Len(at) |-> [at |-> at[k], url |-> VariantUrl(BaseUrl(masterUrl), lines, at[k])]]

SampleUrls == {<<"h", "t", "t", "p", ":", "/", "/", "h", "/", "a", "/", "m", ".", "m", "3", "u", "8">>,
               <<"h", "t", "t", "p", ":", "/", "/", "h", "/", "m", "?", "t", "=", "a", "/", "b">>}

SampleLines == {<<>>,
                <<"#", "E", "X", "T", "I", "N", "F", ":", "4">>,
                <<"s", ".", "t", "s">>,
                <<" ", "s", "2", ".", "t", "s", "\r">>,
                <<"h", "t", "t", "p", ":", "/", "/", "c", "/", "s", ".", "t", "s">>,
                <<"h", "t", "t", "p", "d", "/", "s", ".", "t", "s">>,
                <<"f", "t", "p", ":", "/", "/", "c", "/", "s", ".", "t", "s">>,
                <<"#", "E", "X", "T", "-", "X", "-", "S", "T", "R", "E", "A", "M", "-", "I", "N", "F", ":", "B", "A", "N", "D", "W", "I", "D", "T", "H", "=", "1">>}

\* a document of 1..MaxLines sample lines has been fetched from a sample address
InitManifest ==
  /\ PipeOff
  /\ rt = RtIdle
  /\ shared = SharedIdle
  /\ \E url \in SampleUrls, n \in 1..MaxLines :
       \E lines \in [1..n -> SampleLines] :
         mf = [pc |-> "doc", url |-> url, text |-> Join(lines, "\n"), result |-> <<>>]

\* parseM3u8 returns
DocParse ==
  /\ mf.pc = "doc"
  /\ mf' = [mf EXCEPT !.pc = "parsed", !.result = ParseM3u8(mf.url, mf.text)]
  /\ UNCHANGED <<pipeVars, rt, shared>>

\* chooseM3u8, called when isMasterPlaylist answered true, reaches line 156:
\* it throws (lines 156-158) or prompts with streamInfos
DocChoose ==
  /\ mf.pc = "doc" /\ IsMasterPlaylist(mf.text)
  /\ LET infos == StreamInfos(mf.url, mf.text) IN
       mf' = [mf EXCEPT !.pc = IF Len(infos) = 0 THEN "noStreams" ELSE "prompt",
                        !.result = infos]
  /\ UNCHANGED <<pipeVars, rt, shared>>

NextManifest == DocParse \/ DocChoose

SpecManifest == InitManifest /\ [][NextManifest]_vars

-----------------------------------------------------------------------------
(* mergeTsFiles and cleanup on the workspace of a long run: the manifest has  *)
(* LongRunTs segments, the segments of SampleIndices that were downloaded     *)
(* are in the workspace, all other segments failed, and runWithConcurrency    *)
(* has returned.  The tasks themselves are not part of this specification.    *)

SampleIndices == {0, 1, 10, 99999, 100000}

LongRunTs == Max(SampleIndices) + 1

InitMerge ==
  /\ pc = "merge_readdir" /\ failure = "none" /\ isMaster = FALSE /\ prompts = 0
  /\ nTs = LongRunTs
  /\ limit \in 1..MaxLimit
  /\ nextTask = nTs /\ running = {} /\ awaiting = {} /\ jobs = <<>>
  /\ task = [t \in Tasks |-> NewTask]
  /\ \E S \in SUBSET SampleIndices :
       /\ persisted = S
       /\ tempFolder = [exists |-> TRUE,
                        entries |-> [n \in {FileName(x) : x \in S} |->
                                       SegData(CHOOSE x \in S : FileName(x) = n)]]
       /\ progress = Cardinality(S)
  /\ files = <<>> /\ mfile = 0 /\ mchunk = 0
  /\ out \in {[exists |-> FALSE, content |-> <<>>, ended |-> FALSE, touched |-> FALSE,
         flushed |-> 0, closed |-> FALSE],
              [exists |-> TRUE, content |-> <<"old">>, ended |-> FALSE, touched |-> FALSE,
               flushed |-> 1, closed |-> FALSE]}
  /\ startCount = [t \in Tasks |-> 0]
  /\ lateWrite = FALSE /\ fetchFailed = FALSE
  /\ m3u8Url = 0 /\ streams = 0 /\ selected = 0 /\ parsedUrl = 0
  /\ rt = RtIdle
  /\ mf = MfIdle
  /\ shared = SharedIdle

NextMerge ==
  \/ MergeReaddir
  \/ \E ok \in BOOLEAN : MergeMkdir(ok)
  \/ MergeData
  \/ MergeFileEnd
  \/ MergeReadError
  \/ WriteStreamFlush
  \/ WriteStreamClose
  \/ \E ok \in BOOLEAN : Cleanup(ok)

SpecMerge == InitMerge /\ [][NextMerge]_vars

-----------------------------------------------------------------------------
(* runWithConcurrency under fair scheduling, from the call at line 207 to its *)
(* return: the event loop runs every pending promise job and synchronous      *)
(* step, and every started fetch, delay and file write eventually completes.  *)
(* No step leads back to an earlier state, so weak fairness of the next-state *)
(* relation makes every run go on until no step is left.                      *)

\* lines 186-207 are done: the workspace exists and the loop of line 29 begins
InitSched ==
  /\ pc = "loop" /\ failure = "none" /\ isMaster = FALSE /\ prompts = 0
  /\ nTs \in 0..MaxTs
  /\ limit \in 1..MaxLimit
  /\ nextTask = 0 /\ running = {} /\ awaiting = {} /\ jobs = <<>>
  /\ task = [t \in Tasks |-> NewTask]
  /\ tempFolder = [exists |-> TRUE, entries |-> <<>>]
  /\ files = <<>> /\ mfile = 0 /\ mchunk = 0
  /\ out = [exists |-> FALSE, content |-> <<>>, ended |-> FALSE, touched |-> FALSE,
         flushed |-> 0, closed |-> FALSE]
  /\ progress = 0 /\ startCount = [t \in Tasks |-> 0] /\ persisted = {}
  /\ lateWrite = FALSE /\ fetchFailed = FALSE
  /\ m3u8Url = 0 /\ streams = 0 /\ selected = 0 /\ parsedUrl = 0
  /\ rt = RtIdle
  /\ mf = MfIdle
  /\ shared = SharedIdle

NextSched ==
  \/ StartTask
  \/ LoopExit
  \/ RunJob
  \/ \E t \in Tasks, res \in FetchResults : FetchResponse(t, res)
  \/ \E t \in Tasks : DelayElapsed(t)
  \/ \E t \in Tasks : WriteFileDone(t)
  \/ \E t \in Tasks : WriteFileFails(t)

SpecSched == InitSched /\ [][NextSched]_vars /\ WF_vars(NextSched)

-----------------------------------------------------------------------------
(* runWithConcurrency applied to arbitrary tasks, lines 26-39: a task returns *)
(* a promise that is pending, fulfilled or rejected (an async function that   *)
(* returns or throws before its first await), and a pending promise settles   *)
(* either way in a later promise job or I/O callback.                         *)

PromiseStates == {"pending", "fulfilled", "rejected"}

\* lines 29-35 for a task whose promise is in state `ret` when task() returns:
\* p.finally (line 32) on a settled promise queues its job at once
AnyTaskStart(ret) ==
  /\ pc = "loop" /\ nextTask < nTs
  /\ LET t == LoopTask(nextTask)
         fin == IF ret = "pending" THEN <<>> ELSE <<[k |-> "finally", t |-> t]>>
     IN  /\ task' = [task EXCEPT ![t].st = "run", ![t].p = ret]
         /\ startCount' = [startCount EXCEPT ![t] = @ + 1]
         /\ running' = running \cup {t}
         /\ IF SizeAtLimit(Cardinality(running'), limit)
            THEN /\ pc' = "race"
                 /\ awaiting' = RaceSet(running')
                 /\ jobs' = jobs \o fin \o
                      (IF ret = "pending" THEN ReactNow(RaceSet(running') \ {t})
                       ELSE ReactNow(RaceSet(running') \ {t}) \o
                            (IF t \in RaceSet(running') THEN <<[k |-> "react", t |-> t]>> ELSE <<>>))
            ELSE /\ pc' = "loop"
                 /\ jobs' = jobs \o fin
                 /\ UNCHANGED awaiting
  /\ nextTask' = nextTask + 1
  /\ UNCHANGED <<failure, isMaster, prompts, nTs, limit, tempFolder, files, mfile,
                 mchunk, out, progress, persisted, lateWrite, fetchFailed, m3u8Url,
                 streams, selected, parsedUrl, rt, mf, shared>>

\* the pending promise of a started task settles, while runWithConcurrency is
\* suspended at an await or has returned
AnyTaskSettles(t, how) ==
  /\ pc # "loop"
  /\ task[t].st = "run" /\ task[t].p = "pending"
  /\ task' = [task EXCEPT ![t].p = how]
  /\ jobs' = jobs \o Settled(t)
  /\ UNCHANGED <<pc, failure, isMaster, prompts, nTs, limit, nextTask, running,
                 awaiting, tempFolder, files, mfile, mchunk, out, progress,
                 startCount, persisted, lateWrite, fetchFailed, m3u8Url,
                 streams, selected, parsedUrl, rt, mf, shared>>

NextTasks ==
  \/ \E ret \in PromiseStates : AnyTaskStart(ret)
  \/ LoopExit
  \/ RunJob
  \/ \E t \in Tasks, how \in {"fulfilled", "rejected"} : AnyTaskSettles(t, how)

SpecTasks == InitSched /\ [][NextTasks]_vars

-----------------------------------------------------------------------------
(* Two invocations of downloadM3u8 that overlap in time, on one file system   *)
(* and one clock: two calls in one process, or two processes started in the   *)
(* same directory.  Only what touches the workspace is modelled: lines        *)
(* 186-189, the file writes of downloadTs, the listing and the reads of       *)
(* mergeTsFiles, and cleanup.  A file holds <<invocation, segment index>>.    *)

\* the two invocations
Runs == {1, 2}

\* most segments of each of the two invocations
MaxRunTs == 2

\* last millisecond the clock reaches
MaxClock == 2

\* an invocation that has its segment list (line 184); todo: the segments not
\* yet attempted; found: the entries of the workspace when it was obtained
NewRun(n) ==
  [pc |-> "parsed", folder |-> -1, found |-> {}, todo |-> 0..(n - 1),
   listing |-> <<>>, merged |-> <<>>, removed |-> {}]

InitShared ==
  /\ PipeOff
  /\ rt = RtIdle
  /\ mf = MfIdle
  /\ \E n1 \in 0..MaxRunTs, n2 \in 0..MaxRunTs :
       shared = [now |-> 0, dirs |-> <<>>, run |-> (1 :> NewRun(n1)) @@ (2 :> NewRun(n2))]

\* a millisecond passes
ClockTick ==
  /\ shared.now < MaxClock
  /\ shared' = [shared EXCEPT !.now = @ + 1]
  /\ UNCHANGED <<pipeVars, rt, mf>>

\* lines 186-189: the workspace is named after Date.now(); it is created only
\* if no directory of that name exists, and used as it is otherwise
RunMkdirTemp(id) ==
  /\ shared.run[id].pc = "parsed"
  /\ LET f == shared.now
         there == f \in DOMAIN shared.dirs
     IN  shared' = [shared EXCEPT
           !.dirs = IF there THEN @ ELSE (f :> <<>>) @@ @,
           !.run[id] = [@ EXCEPT !.pc = "download", !.folder = f,
                                 !.found = IF there THEN DOMAIN shared.dirs[f] ELSE {}]]
  /\ UNCHANGED <<pipeVars, rt, mf>>

\* lines 79-80: segment t is written to the workspace; when the directory is
\* gone writeFile fails, and the segment is given up after the retries
RunWriteFile(id, t) ==
  /\ shared.run[id].pc = "download" /\ t \in shared.run[id].todo
  /\ LET f == shared.run[id].folder IN
       shared' = [shared EXCEPT
         !.dirs = IF f \in DOMAIN @
                  THEN [@ EXCEPT ![f] = (FileName(t) :> <<id, t>>) @@ @]
                  ELSE @,
         !.run[id].todo = @ \ {t}]
  /\ UNCHANGED <<pipeVars, rt, mf>>

\* lines 200-204: every attempt of segment t failed
RunSegmentFails(id, t) ==
  /\ shared.run[id].pc = "download" /\ t \in shared.run[id].todo
  /\ shared' = [shared EXCEPT !.run[id].todo = @ \ {t}]
  /\ UNCHANGED <<pipeVars, rt, mf>>

\* lines 88-96, once all tasks have settled (line 207)
RunReaddir(id) ==
  /\ shared.run[id].pc = "download" /\ shared.run[id].todo = {}
  /\ LET f == shared.run[id].folder IN
       IF f \notin DOMAIN shared.dirs
       THEN shared' = [shared EXCEPT !.run[id].pc = "rejected"]
       ELSE LET l == Listing(shared.dirs[f]) IN
            shared' = [shared EXCEPT
              !.run[id].listing = l,
              !.run[id].pc = IF l = <<>> THEN "cleanup" ELSE "merge"]
  /\ UNCHANGED <<pipeVars, rt, mf>>

\* lines 102-109: the next file of the listing is read into the output; the
\* read stream fails when the file is gone
RunReadFile(id) ==
  /\ shared.run[id].pc = "merge"
  /\ LET r == shared.run[id]
         f == r.folder
         name == r.listing[Len(r.merged) + 1]
     IN  IF f \notin DOMAIN shared.dirs \/ name \notin DOMAIN shared.dirs[f]
         THEN shared' = [shared EXCEPT !.run[id].pc = "rejected"]
         ELSE shared' = [shared EXCEPT
                !.run[id].merged = Append(@, shared.dirs[f][name]),
                !.run[id].pc = IF Len(r.merged) + 1 = Len(r.listing) THEN "cleanup" ELSE "merge"]
  /\ UNCHANGED <<pipeVars, rt, mf>>

\* lines 213 and 44-46: the workspace is removed with all it holds; removed:
\* the invocations whose files went with it
RunCleanup(id) ==
  /\ shared.run[id].pc = "cleanup"
  /\ LET f == shared.run[id].folder
         there == f \in DOMAIN shared.dirs
     IN  shared' = [shared EXCEPT
           !.dirs = [d \in DOMAIN @ \ {f} |-> @[d]],
           !.run[id].removed = IF there
                               THEN {shared.dirs[f][n][1] : n \in DOMAIN shared.dirs[f]}
                               ELSE {},
           !.run[id].pc = "done"]
  /\ UNCHANGED <<pipeVars, rt, mf>>

NextShared ==
  \/ ClockTick
  \/ \E id \in Runs : RunMkdirTemp(id)
  \/ \E id \in Runs, t \in 0..(MaxRunTs - 1) : RunWriteFile(id, t)
  \/ \E id \in Runs, t \in 0..(MaxRunTs - 1) : RunSegmentFails(id, t)
  \/ \E id \in Runs : RunReaddir(id)
  \/ \E id \in Runs : RunReadFile(id)
  \/ \E id \in Runs : RunCleanup(id)

SpecShared == InitShared /\ [][NextShared]_vars

-----------------------------------------------------------------------------
(* Claims *)

\* tasks started and not yet settled; a task in its retry delay is one of them
InFlight == {t \in Tasks : task[t].st # "new" /\ task[t].p = "pending"}

\* the segment tasks of the run
Segs == 0..(nTs - 1)

\* `await runWithConcurrency(...)` (line 207) has returned
SchedulerReturned ==
  pc \in MergePcs \/ (pc = "rejected" /\ failure \in {"merge", "cleanup"})

\* C1: in every reachable state of runWithConcurrency, under every order of
\* task completions, at most `limit` tasks are started and not yet settled.
C1_AtMostLimitInFlight == Cardinality(InFlight) <= limit

\* the limit is reached with more tasks left, one of the tasks in flight being
\* in its retry delay
C1_Witness ==
  /\ limit >= 2 /\ nTs > limit /\ Cardinality(InFlight) = limit
  /\ \E t \in InFlight : task[t].st = "delay"

\* C3: retry returns the value of the first successful invocation after
\* exactly k <= retries + 1 invocations; when every invocation fails, fn was
\* invoked exactly retries + 1 times and the error thrown is the one of the
\* last invocation.
C3_RetryContract ==
  /\ rt.pc \in {"returned", "threw"} =>
       /\ Len(rt.hist) = rt.calls
       /\ rt.calls <= rt.retries + 1
       /\ \A k \in 1..(rt.calls - 1) : ~rt.hist[k].ok
       /\ rt.result = rt.hist[rt.calls].v
  /\ rt.pc = "returned" => rt.hist[rt.calls].ok
  /\ rt.pc = "threw" => ~rt.hist[rt.calls].ok /\ rt.calls = rt.retries + 1
  /\ rt.pc \in {"call", "delay"} => \A k \in 1..Len(rt.hist) : ~rt.hist[k].ok

\* retries = 3, four failed invocations, the last error differing from the one
\* before it
C3_Witness ==
  /\ rt.pc = "threw" /\ rt.retries = DefaultRetries /\ rt.calls = 4
  /\ rt.hist[3].v # rt.hist[4].v /\ rt.result = rt.hist[4].v

C5_SchedulerTerminates ==
  (pc \in {"loop", "race", "all"}) ~> (SchedulerReturned /\ \A t \in Segs : startCount[t] = 1)

\* runWithConcurrency returned after it had to wait for a free slot
C5_Witness == pc = "merge_readdir" /\ limit >= 2 /\ nTs > limit

\* C6: each task is started exactly once, runWithConcurrency returns only
\* when no task is in flight, and no segment file is written once
\* mergeTsFiles has begun.
C6_MergeAfterAllTasks ==
  /\ \A t \in Tasks : startCount[t] <= 1
  /\ SchedulerReturned => InFlight = {} /\ \A t \in Segs : startCount[t] = 1
  /\ ~lateWrite

\* mergeTsFiles streams the files of a run that had to wait for free slots
C6_Witness == pc = "merge_stream" /\ limit = 2 /\ nTs = 3 /\ Cardinality(persisted) >= 2

\* the run created its workspace directory
WorkspaceWasCreated ==
  \/ pc \in {"loop", "race", "all"} \cup MergePcs
  \/ pc = "rejected" /\ failure \in {"task", "merge", "cleanup"}

\* C7 as claimed: when downloadM3u8 has finished, the workspace it created no
\* longer exists, whether all segments succeeded, some or all failed, or the
\* assembly raised an error (a run whose removal of the workspace itself
\* failed is left aside).
C7_WorkspaceGoneAtEnd ==
  (pc \in {"resolved", "rejected"} /\ WorkspaceWasCreated /\ failure # "cleanup")
    => ~tempFolder.exists

\* C8: when a manifest fetch answers non-2xx or fails, downloadM3u8 rejects,
\* and no segment task is started, no workspace exists and the output file is
\* neither created nor modified.
C8_ManifestFailureAborts ==
  fetchFailed =>
    /\ pc = "rejected" /\ failure = "manifest"
    /\ \A t \in Tasks : startCount[t] = 0 /\ task[t].st = "new"
    /\ ~tempFolder.exists
    /\ ~out.touched

\* the segment-list fetch of the chosen variant failed, an older output file
\* being in place
C8_Witness ==
  /\ fetchFailed /\ pc = "rejected" /\ prompts = 1 /\ out.exists
  /\ out.content = <<"old">>

-----------------------------------------------------------------------------
(* Claims about the output and about the manifest functions *)

\* C2 as claimed: once mergeTsFiles has written the output, its content is
\* the concatenation of the segments downloaded in the run, in ascending
\* segment index.
C2_OutputInIndexOrder ==
  (pc \in {"cleanup", "resolved"} /\ out.ended) =>
    out.content = Flatten([k \in 1..Cardinality(persisted) |-> SegData(Ascending(persisted)[k])])

Letters == {"a", "b", "c", "d", "e", "f", "g", "h", "i", "j", "k", "l", "m", "n",
            "o", "p", "q", "r", "s", "t", "u", "v", "w", "x", "y", "z",
            "A", "B", "C", "D", "E", "F", "G", "H", "I", "J", "K", "L", "M", "N",
            "O", "P", "Q", "R", "S", "T", "U", "V", "W", "X", "Y", "Z"}

\* a locator that is already absolute: it begins with a scheme and "://"
HasScheme(line) ==
  \E k \in 2..Len(line) :
    /\ k + 2 <= Len(line)
    /\ SubSeq(line, k, k + 2) = <<":", "/", "/">>
    /\ \A j \in 1..(k - 1) : line[j] \in Letters

\* B of a manifest address B/<last-segment>
AddressBase(url) ==
  LET at == {k \in 1..Len(url) : url[k] = "/"} IN SubSeq(url, 1, Max(at) - 1)

\* the non-blank lines of a document that do not start with '#', in file order
LocatorLines(text) == SelectSeq(TrimmedLines(text), LAMBDA l : l # <<>> /\ l[1] # "#")

\* C9 as claimed: for a manifest with no stream-variant directive parseM3u8
\* returns one locator per non-blank line not starting with '#', in file
\* order, an absolute locator verbatim and a relative locator r as B/r.
C9_ParseContract ==
  (mf.pc = "parsed" /\ ~IsMasterPlaylist(mf.text)) =>
    LET ls == LocatorLines(mf.text) IN
      mf.result = [k \in 1..Len(ls) |->
                     IF HasScheme(ls[k]) THEN ls[k]
                     ELSE AddressBase(mf.url) \o <<"/">> \o ls[k]]

\* the line a stream-variant directive at line i is to be paired with: the
\* next following line that is non-blank and not a comment (0: there is none)
PairedLine(lines, i) ==
  LET after == {k \in (i + 1)..Len(lines) : lines[k] # <<>> /\ lines[k][1] # "#"}
  IN  IF after = {} THEN 0 ELSE Min(after)

\* C10 as claimed: every variant chooseM3u8 offers belongs to a directive that
\* has a following non-blank, non-comment line, and its locator is that line
\* (verbatim or rebased); and directives without such a line are all handled
\* alike: none is offered, or chooseM3u8 fails.
C10_VariantPairing ==
  mf.pc \in {"prompt", "noStreams"} =>
    LET lines == TrimmedLines(mf.text)
        dirs == {i \in 1..Len(lines) : StartsWith(lines[i], StreamInf)}
        paired == {i \in dirs : PairedLine(lines, i) # 0}
    IN  \/ mf.pc = "noStreams" /\ paired = {}
        \/ /\ mf.pc = "prompt"
           /\ {mf.result[k].at : k \in 1..Len(mf.result)} = paired
           /\ \A k \in 1..Len(mf.result) :
                LET l == lines[PairedLine(lines, mf.result[k].at)]
                IN  mf.result[k].url \in {l, AddressBase(mf.url) \o <<"/">> \o l}

-----------------------------------------------------------------------------
(* Claims about the end of the run, the order of starts and the assembly *)

\* every segment of a manifest with at least one segment was persisted
AllSegmentsSucceeded == nTs >= 1 /\ persisted = Segs

\* C11 as claimed: when all N segments were fetched successfully, then once
\* downloadM3u8 has resolved, the output file holds the bytes of the N
\* segments, every write has been flushed to it, the destination is closed,
\* and the workspace directory no longer exists.
C11_OutputCompleteAtResolve ==
  (pc = "resolved" /\ AllSegmentsSucceeded) =>
    /\ out.exists
    /\ Len(out.content) = nTs * ChunksPerSeg
    /\ out.flushed = Len(out.content)
    /\ out.closed
    /\ ~tempFolder.exists

\* C12: runWithConcurrency starts the tasks in submission order: whenever a
\* task is started, every task submitted before it has been started and no
\* task submitted after it has, whatever the order in which tasks complete.
C12_StartsInSubmissionOrder ==
  [][\A t \in Tasks :
       startCount'[t] # startCount[t] =>
         /\ startCount[t] = 0
         /\ \A u \in Tasks : u < t => startCount[u] = 1
         /\ \A u \in Tasks : u > t => startCount[u] = 0]_vars

\* completion out of submission order: with two slots, task 1 settled first,
\* task 2 was started in its slot, and task 0 is still in flight
C12_Witness ==
  /\ limit = 2 /\ nTs = 3
  /\ task[1].p = "fulfilled" /\ task[0].p = "pending"
  /\ startCount[2] = 1 /\ task[2].st = "fetch"

\* the chunks of the first k files of the listing, in listing order
RECURSIVE FilesData(_)
FilesData(k) == IF k = 0 THEN <<>> ELSE FilesData(k - 1) \o FileData(files[k])

AssembledNothing ==
  /\ pc \in {"cleanup", "resolved"} \/ (pc = "rejected" /\ failure \in {"merge", "cleanup"})
  /\ files = <<>>

\* the file at the output path is as it was before the run
OutputUntouched ==
  /\ ~out.touched
  /\ out.exists => out.content = <<"old">> /\ out.flushed = 1
  /\ ~out.exists => out.content = <<>>

\* C14 as claimed: when the workspace holds no segment file at assembly time
\* (no segment in the manifest, or every segment failed all its attempts),
\* mergeTsFiles returns without creating or modifying a file at the output
\* path, and the run completes normally: downloadM3u8 does not reject.
C14_NothingToMerge ==
  AssembledNothing => OutputUntouched /\ pc # "rejected"

\* C15 as claimed: for all segment indices i < j of a run, the file name
\* written for i sorts strictly before the file name written for j under the
\* sort of mergeTsFiles, so that the sorted listing is in index order.
C15_NamesSortInIndexOrder ==
  (pc \in {"merge_mkdir", "merge_stream"}) =>
    /\ \A i \in persisted, j \in persisted :
         i < j => StrLess(FileName(i), FileName(j))
    /\ files = [k \in 1..Cardinality(persisted) |-> FileName(Ascending(persisted)[k])]

\* the invocation holds a workspace: it is past line 189 and has not finished
HoldsWorkspace(id) == shared.run[id].pc \in {"download", "merge", "cleanup"}

\* C16 as claimed: two invocations of downloadM3u8 that overlap in time
\* never share a workspace: their directories are distinct, each starts
\* from an empty directory, and neither merges nor deletes segment files
\* written by the other.
C16_WorkspaceNotShared ==
  /\ (HoldsWorkspace(1) /\ HoldsWorkspace(2)) =>
       shared.run[1].folder # shared.run[2].folder
  /\ \A id \in Runs :
       /\ shared.run[id].found = {}
       /\ \A k \in 1..Len(shared.run[id].merged) : shared.run[id].merged[k][1] = id
       /\ shared.run[id].removed \subseteq {id}

\* a segment fetch was started
SegmentFetched == \E t \in Tasks : startCount[t] >= 1

\* C17: the variant-selection collaborator is invoked only for a manifest with
\* a stream-variant directive, and then exactly once before any segment is
\* fetched; the segment list is then parsed from the locator of the chosen
\* variant.  For a manifest without the directive it is never invoked and the
\* segment list is parsed from the given address.
C17_PromptOnlyForMaster ==
  /\ prompts <= 1
  /\ prompts = 1 <=> selected # 0
  /\ prompts = 1 => isMaster
  /\ (isMaster /\ (SegmentFetched \/ parsedUrl # -1)) => prompts = 1
  /\ (parsedUrl # -1 /\ isMaster) => selected \in 1..MaxVariants /\ parsedUrl = selected
  /\ (parsedUrl # -1 /\ ~isMaster) => parsedUrl = 0

\* the second of two variants was chosen and its segments are being fetched
C17_Witness ==
  /\ isMaster /\ prompts = 1 /\ selected = 2 /\ parsedUrl = 2
  /\ SegmentFetched /\ nTs = 2

\* C18 as claimed: for arbitrary tasks, if the promise of any task rejects,
\* runWithConcurrency rejects; in particular it never resolves normally after
\* a task rejected, whatever the limit and the interleaving of the settlement
\* with the loop.
C18_TaskRejectionAborts ==
  (pc = "merge_readdir") => \A t \in Tasks : task[t].p # "rejected"

\* the tasks whose writeFile to the workspace file `name` is in progress
WritersOf(name) == {t \in Tasks : task[t].st = "write" /\ FileName(t) = name}

\* C19: within one run no two writes to the same workspace file are ever in
\* progress: each task function runs once, the file of an index is written
\* only by the task of that index and holds its segment, and a task makes no
\* further attempt once its segment is persisted.
C19_NoWriteWriteRace ==
  /\ \A t \in Tasks : Cardinality(WritersOf(FileName(t))) <= 1
  /\ \A t \in Tasks : startCount[t] <= 1
  /\ \A n \in DOMAIN tempFolder.entries :
       \E t \in persisted : n = FileName(t) /\ tempFolder.entries[n] = SegData(t)
  /\ \A t \in persisted : task[t].st = "done"

\* two writes are in progress at once, to different files, one of them in a
\* later attempt of its task, while a third segment is persisted already
C19_Witness ==
  /\ task[0].st = "write" /\ task[0].i >= 1
  /\ task[1].st = "write"
  /\ persisted = {2}

\* C20 as claimed: the removal of the workspace is best-effort: when it fails
\* after the assembly, the failure is not passed on to the caller, and
\* downloadM3u8 resolves with the output produced; so downloadM3u8 never
\* rejects with the failure of the removal.
C20_RemovalFailureSwallowed ==
  pc = "rejected" => failure # "cleanup"

====
